---- MODULE Spec2Model ----
(***************************************************************************)
(* A model of editor.c (version 0.0.15, src/editor.c lines 263-1086): the  *)
(* global editor context E, the text buffer, the motion engine, the mode   *)
(* state machine, the command-line evaluator, the file adapter, the        *)
(* scroll computation and the process life cycle (raw mode, exit hooks).   *)
(*                                                                         *)
(* Characters, keys and file bytes are their integer codes.  C indices are *)
(* 0-based; TLA+ sequences are 1-based, so row i of the code is rows[i+1]. *)
(***************************************************************************)
EXTENDS Integers, Sequences, FiniteSets, TLC

(***************************************************************************)
(* Bounds of the model (not program constants).                            *)
(***************************************************************************)
\* most rows the buffer may grow to by typing Return
MaxRows == 2
\* longest row that typing or joining may produce
MaxLen == 1
\* largest repeat count accumulated digit by digit
MaxCount == 2
MaxCommands == 2

(***************************************************************************)
(* Program constants.                                                      *)
(***************************************************************************)
TAB_SIZE == 8
\* sizeof(motions): 128 function pointers of 8 bytes
MOTIONS_SIZEOF == 1024
\* number of entries of the motions table
MOTIONS_ENTRIES == 128
RETURN == 13
ESCAPE == 27
BACKSPACE == 127
ARROW_UP == 1000
CTRL_C == 3
CTRL_H == 8
TAB == 9
NEWLINE == 10
SPACE == 32
\* '?' printed by run_motion for a non-printable key
QMARK == 63
\* the characters the code names
CH_0 == 48
CH_2 == 50
CH_colon == 58
CH_bang == 33
CH_dollar == 36
CH_underscore == 95
CH_A == 65
CH_B == 66
CH_G == 71
CH_I == 73
CH_W == 87
CH_a == 97
CH_b == 98
CH_c == 99
CH_d == 100
CH_e == 101
CH_g == 103
CH_h == 104
CH_i == 105
CH_j == 106
CH_k == 107
CH_l == 108
CH_q == 113
CH_w == 119
CH_y == 121
\* a printable character with no meaning to the editor
CH_x == 120
\* the file names used on the command line and in the prompt
CH_f == 102

M_NORMAL == "Normal"
M_INSERT == "Insert"
M_COMMAND == "Command"
M_VISUAL == "Visual"

OP_NONE == "OP_NONE"
OP_DELETE == "OP_DELETE"
OP_YANK == "OP_YANK"
OP_CHANGE == "OP_CHANGE"

\* a NULL char pointer; no string the code tests against NULL is empty
NULL == <<>>

(***************************************************************************)
(* Generic helpers.                                                        *)
(***************************************************************************)
Take(s, n) == SubSeq(s, 1, n)
Drop(s, n) == SubSeq(s, n + 1, Len(s))

\* A u32 value v is held as the integer congruent to v modulo 2^32 that is
\* nearest to 0 (2^32 - 1 is held as -1): sums and differences are then the
\* integer ones, and the unsigned order puts the negative integers above the
\* others.  (The model checker's integers have 32 bits.)
u32_lt(a, b) == IF (a < 0) = (b < 0) THEN a < b ELSE b < 0
u32_gt(a, b) == u32_lt(b, a)
u32_ge(a, b) == ~u32_lt(a, b)

\* the cast (u8)c
u8(c) == c % 256
isprint(c) == c >= 32 /\ c <= 126
isdigit(c) == c >= 48 /\ c <= 57
isspace(c) == c = SPACE \/ (c >= 9 /\ c <= 13)

(***************************************************************************)
(* Text buffer.  A row is [chars, render]; len and rlen are the lengths.   *)
(***************************************************************************)
RECURSIVE pad_tab(_)
pad_tab(out) ==
    IF Len(out) % TAB_SIZE # 0 THEN pad_tab(Append(out, SPACE)) ELSE out

RECURSIVE render_from(_, _, _)
render_from(chars, i, out) ==
    IF i > Len(chars) THEN out
    ELSE IF chars[i] = TAB
         THEN render_from(chars, i + 1, pad_tab(Append(out, SPACE)))
         ELSE render_from(chars, i + 1, Append(out, chars[i]))

\* a faulty row_update: every tab becomes TAB_SIZE spaces
RECURSIVE render_wide_tabs(_)
render_wide_tabs(chars) ==
    IF chars = <<>> THEN <<>>
    ELSE (IF Head(chars) = TAB THEN [i \in 1..TAB_SIZE |-> SPACE] ELSE <<Head(chars)>>)
            \o render_wide_tabs(Tail(chars))

row_update_wide_tabs(row) == [row EXCEPT !.render = render_wide_tabs(row.chars)]

row_update(row) == [row EXCEPT !.render = render_from(row.chars, 1, <<>>)]

\* Memory allocation.  w.ev.alloc names the allocations that fail while the
\* key is handled: "rows" (the row array), "chars" (the characters of a row),
\* "render" (the render of a row) or "none".  A failure the code tests for
\* ends in die; after one it does not test for, the code stores through the
\* NULL pointer (undefined behaviour): the process is killed (w.ev.trap) or
\* the store goes unnoticed and the editor carries on.
\* w.ev.nomem records that an allocation failed.
\* an allocation of kind whose result the code tests: a failure ends in die
checked_alloc(w, kind, next) ==
    IF w.halt # "none" THEN w
    ELSE IF w.ev.alloc = kind THEN [w EXCEPT !.ev.nomem = TRUE, !.halt = "exit1"]
    ELSE next

\* an allocation of kind whose result the code uses untested
unchecked_alloc(w, kind, next) ==
    IF w.halt # "none" THEN w
    ELSE IF w.ev.alloc # kind THEN next
    ELSE IF w.ev.trap THEN [w EXCEPT !.ev.nomem = TRUE, !.halt = "segv"]
    ELSE [next EXCEPT !.ev.nomem = TRUE]

\* row_insert once its allocations are made
row_inserted(w, at, s) ==
    LET a == IF at > w.E.row_count THEN w.E.row_count ELSE at
        row == row_update([chars |-> s, render |-> <<>>])
    IN [w EXCEPT !.E.rows = Take(@, a) \o <<row>> \o Drop(@, a),
                 !.E.row_count = @ + 1,
                 !.E.dirty = TRUE]

\* realloc of E.rows (tested), malloc of chars (untested), malloc of render
\* in row_update (tested)
row_insert(w, at, s) ==
    checked_alloc(w, "rows",
        unchecked_alloc(w, "chars",
            checked_alloc(w, "render", row_inserted(w, at, s))))

\* row is the 0-based index of the row the code holds a pointer to
row_append_string(w, row, s) ==
    checked_alloc(w, "chars",
        checked_alloc(w, "render",
            [w EXCEPT !.E.rows[row + 1] = row_update([@ EXCEPT !.chars = @ \o s]),
                      !.E.dirty = TRUE]))

\* row_insert_char once its allocations are made
row_char_inserted(w, row, at, c) ==
    LET len == Len(w.E.rows[row + 1].chars)
        a == IF at > len THEN len ELSE at
    IN [w EXCEPT !.E.rows[row + 1] =
                     row_update([@ EXCEPT !.chars = Take(@, a) \o <<c>> \o Drop(@, a)]),
                 !.E.dirty = TRUE]

\* realloc of chars (untested), malloc of render in row_update (tested)
row_insert_char(w, row, at, c) ==
    unchecked_alloc(w, "chars",
        checked_alloc(w, "render", row_char_inserted(w, row, at, c)))

row_delete(w, at) ==
    IF w.halt # "none" \/ at >= w.E.row_count THEN w
    ELSE [w EXCEPT !.E.rows = Take(@, at) \o Drop(@, at + 1),
                   !.E.row_count = @ - 1,
                   !.E.dirty = TRUE]

\* a faulty row_delete_char: the last character of the row is removed
row_delete_char_last(w, row, at) ==
    IF at >= Len(w.E.rows[row + 1].chars) THEN w
    ELSE [w EXCEPT !.E.rows[row + 1] =
                       row_update([@ EXCEPT !.chars = Take(@, Len(@) - 1)]),
                   !.E.dirty = TRUE]

row_delete_char(w, row, at) ==
    IF at >= Len(w.E.rows[row + 1].chars) THEN w
    ELSE checked_alloc(w, "render",
             [w EXCEPT !.E.rows[row + 1] =
                           row_update([@ EXCEPT !.chars = Take(@, at) \o Drop(@, at + 1)]),
                       !.E.dirty = TRUE])

\* a faulty rows_to_string: the rows joined by newlines, none after the last
RECURSIVE rows_joined_from(_, _)
rows_joined_from(rows, j) ==
    IF j > Len(rows) THEN <<>>
    ELSE IF j = Len(rows) THEN rows[j].chars
    ELSE rows[j].chars \o <<NEWLINE>> \o rows_joined_from(rows, j + 1)

rows_joined(E) == rows_joined_from(Take(E.rows, E.row_count), 1)

RECURSIVE rows_to_string_from(_, _)
rows_to_string_from(rows, j) ==
    IF j > Len(rows) THEN <<>>
    ELSE rows[j].chars \o <<NEWLINE>> \o rows_to_string_from(rows, j + 1)

\* the bytes of the buffer; the empty sequence is the NULL buffer of length 0
rows_to_string(E) == rows_to_string_from(Take(E.rows, E.row_count), 1)

(***************************************************************************)
(* Rendering: the scroll computation of refresh_screen.                    *)
(***************************************************************************)
RECURSIVE scroll_rx(_, _, _, _)
scroll_rx(chars, cx, i, rx) ==
    IF i >= cx THEN rx
    ELSE LET r == IF chars[i + 1] = TAB
                  THEN rx + (TAB_SIZE - 1) - (rx % TAB_SIZE)
                  ELSE rx
         IN scroll_rx(chars, cx, i + 1, r + 1)

\* a faulty scroll_offset: the window follows one position too late
scroll_offset_late(r, offset, screen) ==
    LET o1 == IF u32_lt(r, offset) THEN r ELSE offset
    IN IF u32_gt(r, o1 + screen) THEN r - screen + 1 ELSE o1

\* the new offset of one axis: r is the render position, screen the window size
scroll_offset(r, offset, screen) ==
    LET o1 == IF u32_lt(r, offset) THEN r ELSE offset
    IN IF u32_ge(r, o1 + screen) THEN r - screen + 1 ELSE o1

\* scroll from the point where E.rx and E.ry are computed
scroll_offsets(E, rx, ry) ==
    [E EXCEPT !.rx = rx,
              !.ry = ry,
              !.row_offset = scroll_offset(ry, @, E.screen_rows),
              !.col_offset = scroll_offset(rx, @, E.screen_cols)]

scroll(E) ==
    scroll_offsets(E,
                   IF E.cy < E.row_count
                   THEN scroll_rx(E.rows[E.cy + 1].chars, E.cx, 0, 0)
                   ELSE E.cx,
                   E.cy)

\* the length snprintf returns for "%4u ", for a line number below 10000
LINENR_LEN == 5

\* draw_file_row: the two ab_append calls, as the number of bytes of the
\* line-number field and the slice render[from .. from + len - 1]
draw_file_row(E, file_row) ==
    LET rlen == Len(E.rows[file_row + 1].render)
        len == IF u32_ge(E.col_offset, rlen) THEN 0 ELSE rlen - E.col_offset
    IN [file_row |-> file_row,
        linenr_len |-> LINENR_LEN,
        from |-> E.col_offset,
        len |-> IF u32_gt(len + LINENR_LEN, E.screen_cols) THEN E.screen_cols ELSE len]

\* draw_rows: what draw_file_row emits on each screen row y that shows a row
draw_rows(E) ==
    [y \in {y \in 0..(E.screen_rows - 1) : y + E.row_offset < E.row_count} |->
        draw_file_row(E, y + E.row_offset)]

\* refresh_screen: the 1-based terminal cell of the cursor-position sequence
\* "\x1b[%u;%uH", computed after scroll
cursor_cell(E) == [row |-> (E.ry - E.row_offset) + 1, col |-> E.rx + 6]

refresh_screen(w) == [w EXCEPT !.E = scroll(@)]

\* a status message is its format string and its string argument
statusmsg_set(w, fmt, arg) ==
    refresh_screen([w EXCEPT !.E.statusmsg = [fmt |-> fmt, arg |-> arg]])

(***************************************************************************)
(* Motions.  A motion returns the end position together with what the call *)
(* did to memory: oob is TRUE when it indexed E.rows at or past row_count, *)
(* segv when that access killed the process.  Reading E.rows[0] of a       *)
(* buffer without rows dereferences the NULL row array (undefined          *)
(* behaviour): the input in.ub chooses between the process being killed    *)
(* and the read yielding the arbitrary length in.garbage.                  *)
(***************************************************************************)
Pos(x, y) == [x |-> x, y |-> y, oob |-> FALSE, segv |-> FALSE]

fix_toofar(E, p, in) ==
    LET y == IF u32_ge(p.y, E.row_count)
             THEN (IF E.row_count # 0 THEN E.row_count - 1 ELSE 0)
             ELSE p.y
    IN IF y < E.row_count
       THEN LET len == Len(E.rows[y + 1].chars)
            IN [p EXCEPT !.y = y, !.x = IF u32_gt(p.x, len) THEN len ELSE p.x]
       ELSE IF in.ub = "segv"
            THEN [p EXCEPT !.y = y, !.oob = TRUE, !.segv = TRUE]
            ELSE [p EXCEPT !.y = y, !.oob = TRUE,
                           !.x = IF u32_gt(p.x, in.garbage) THEN in.garbage ELSE p.x]

motion_up(E, p, count, in) ==
    LET dy == IF u32_gt(count, p.y) THEN p.y ELSE count
    IN fix_toofar(E, [p EXCEPT !.y = p.y - dy], in)

motion_down(E, p, count, in) ==
    LET dy == IF u32_gt(p.y + count, E.row_count)
              THEN E.row_count - p.y
              ELSE count
    IN fix_toofar(E, [p EXCEPT !.y = p.y + dy], in)

motion_left(E, p, count, in) ==
    LET dx == IF u32_gt(count, p.x) THEN p.x ELSE count
    IN [p EXCEPT !.x = p.x - dx]

motion_right(E, p, count, in) ==
    LET len == IF u32_ge(p.y, E.row_count) THEN 0 ELSE Len(E.rows[p.y + 1].chars)
        dx == IF u32_gt(p.x + count, len) THEN len - p.x ELSE count
    IN [p EXCEPT !.x = p.x + dx]

\* a faulty motion_home: the count is passed on undiminished
motion_home_full_count(E, p, count, in) ==
    motion_down(E, [p EXCEPT !.x = 0], count, in)

motion_home(E, p, count, in) ==
    motion_down(E, [p EXCEPT !.x = 0], count - 1, in)

motion_end(E, p, count, in) ==
    LET x == IF u32_ge(p.y, E.row_count) THEN 0 ELSE Len(E.rows[p.y + 1].chars)
    IN motion_down(E, [p EXCEPT !.x = x], count - 1, in)

motion_fword(E, p, count, in) == p

motion_file_top(E, p, count, in) ==
    LET len == IF 0 >= E.row_count THEN 0 ELSE Len(E.rows[1].chars)
    IN fix_toofar(E, [p EXCEPT !.y = 0, !.x = IF u32_gt(p.x, len) THEN len ELSE p.x], in)

motion_file_bottom(E, p, count, in) ==
    LET y == IF E.row_count # 0 THEN E.row_count - 1 ELSE 0
        len == IF y >= E.row_count THEN 0 ELSE Len(E.rows[y + 1].chars)
    IN fix_toofar(E, [p EXCEPT !.y = y, !.x = IF u32_gt(p.x, len) THEN len ELSE p.x], in)

\* the table filled by motions_init; "" is the NULL entry left by memset
motions(key) ==
    CASE key = CH_h -> "motion_left"
      [] key = CH_j -> "motion_down"
      [] key = CH_k -> "motion_up"
      [] key = CH_l -> "motion_right"
      [] key = CH_underscore -> "motion_home"
      [] key = CH_dollar -> "motion_end"
      [] key = CH_g -> "motion_file_top"
      [] key = CH_G -> "motion_file_bottom"
      [] key \in {CH_w, CH_b, CH_W, CH_B} -> "motion_fword"
      [] OTHER -> ""

call_motion(E, fn, p, count, in) ==
    CASE fn = "motion_left" -> motion_left(E, p, count, in)
      [] fn = "motion_down" -> motion_down(E, p, count, in)
      [] fn = "motion_up" -> motion_up(E, p, count, in)
      [] fn = "motion_right" -> motion_right(E, p, count, in)
      [] fn = "motion_home" -> motion_home(E, p, count, in)
      [] fn = "motion_end" -> motion_end(E, p, count, in)
      [] fn = "motion_file_top" -> motion_file_top(E, p, count, in)
      [] fn = "motion_file_bottom" -> motion_file_bottom(E, p, count, in)
      [] OTHER -> motion_fword(E, p, count, in)

not_implemented(w, key) ==
    statusmsg_set(w, "'%c' is not implemented",
                  <<IF isprint(u8(key)) THEN u8(key) ELSE QMARK>>)

\* The result is [w, end].  The test key < sizeof(motions) compares the key as
\* an unsigned value with the size in bytes, so a key in 128..1023 reads past
\* the 128 entries of the table
\* (undefined behaviour): in.ub chooses between the process being killed and
\* the read yielding a NULL pointer.
motion_called(w, end) ==
    [w |-> [w EXCEPT !.ev.oob = @ \/ end.oob,
                     !.halt = IF end.segv THEN "segv" ELSE @],
     end |-> end]

run_motion(w, key, start, count, in) ==
    LET past_table == u32_lt(key, MOTIONS_SIZEOF) /\ key >= MOTIONS_ENTRIES
    IN IF u32_lt(key, MOTIONS_ENTRIES) /\ motions(key) # ""
       THEN motion_called(w, call_motion(w.E, motions(key), start, count, in))
       ELSE IF past_table /\ in.ub = "segv"
            THEN [w |-> [w EXCEPT !.ev.tbl = TRUE, !.halt = "segv"], end |-> start]
            ELSE [w |-> not_implemented([w EXCEPT !.ev.tbl = past_table], key),
                  end |-> start]

\* a faulty delete_range: d with a motion deletes the row the motion started on
apply_range_deletes(w, op, start, end) ==
    IF op = OP_DELETE THEN row_delete(w, start.y) ELSE w

\* change_range, delete_range and yank_range have empty bodies
apply_range(w, op, start, end) == w

\* a faulty process_normal: the pending operator survives the motion
motion_resolved_keep_op(start, r) ==
    IF r.w.halt # "none" THEN r.w
    ELSE IF r.w.E.pending_op # OP_NONE
         THEN apply_range(r.w, r.w.E.pending_op, start, r.end)
         ELSE [r.w EXCEPT !.E.cx = r.end.x, !.E.cy = r.end.y]

\* process_normal after run_motion returned r = [w, end]
motion_resolved(start, r) ==
    IF r.w.halt # "none" THEN r.w
    ELSE IF r.w.E.pending_op # OP_NONE
         THEN [apply_range(r.w, r.w.E.pending_op, start, r.end)
                  EXCEPT !.E.pending_op = OP_NONE]
         ELSE [r.w EXCEPT !.E.cx = r.end.x, !.E.cy = r.end.y]

\* process_normal from the label handle_as_motion
handle_as_motion(w, c, in) ==
    motion_resolved(Pos(w.E.cx, w.E.cy),
                    run_motion([w EXCEPT !.E.pending_count = 0,
                                         !.ev.motion = TRUE,
                                         !.ev.op = w.E.pending_op,
                                         !.ev.count = IF w.E.pending_count # 0
                                                      THEN w.E.pending_count
                                                      ELSE 1],
                               c,
                               Pos(w.E.cx, w.E.cy),
                               IF w.E.pending_count # 0 THEN w.E.pending_count ELSE 1,
                               in))

process_normal(w, c, in) ==
    LET digit == isdigit(u8(c))
        first_zero == w.E.pending_count = 0 /\ c - CH_0 = 0
    IN IF digit /\ ~first_zero
       THEN [w EXCEPT !.E.pending_count = @ * 10 + (c - CH_0)]
       ELSE IF ~digit /\ c = CH_c THEN [w EXCEPT !.E.pending_op = OP_CHANGE]
       ELSE IF ~digit /\ c = CH_d THEN [w EXCEPT !.E.pending_op = OP_DELETE]
       ELSE IF ~digit /\ c = CH_y THEN [w EXCEPT !.E.pending_op = OP_YANK]
       ELSE handle_as_motion(w, c, in)

(***************************************************************************)
(* Insert-mode editing.  An access to a row at or past row_count through   *)
(* E.cy writes outside the row array; the model records it and the process *)
(* is killed.                                                              *)
(***************************************************************************)
fault(w) == [w EXCEPT !.ev.oob = TRUE, !.halt = "segv"]

\* insert_char once the row E.cy exists
\* the cursor set to (cx, cy) unless the process has ended
cursor_set(w, cx, cy) ==
    IF w.halt # "none" THEN w ELSE [w EXCEPT !.E.cx = cx, !.E.cy = cy]

insert_char_at(w, c) ==
    IF w.halt # "none" THEN w
    ELSE IF w.E.cy >= w.E.row_count THEN fault(w)
    ELSE cursor_set(row_insert_char(w, w.E.cy, w.E.cx, c), w.E.cx + 1, w.E.cy)

insert_char(w, c) ==
    insert_char_at(IF w.E.cy = w.E.row_count THEN row_insert(w, w.E.row_count, <<>>) ELSE w,
                   c)

\* a faulty insert_newline: the row split keeps its characters after cx
split_row_keep_tail(w, cx, cy) ==
    IF cx = 0
    THEN cursor_set(row_insert(w, cy, <<>>), 0, cy + 1)
    ELSE IF cy >= w.E.row_count THEN fault(w)
    ELSE cursor_set(row_insert(w, cy + 1, Drop(w.E.rows[cy + 1].chars, cx)), 0, cy + 1)

\* row->len = E.cx and row_update(row), on row cy
row_cut(w, cx, cy) ==
    checked_alloc(w, "render",
        [w EXCEPT !.E.rows[cy + 1] = row_update([@ EXCEPT !.chars = Take(@, cx)])])

\* insert_newline after its first line, with the cursor at (cx, cy)
split_row(w, cx, cy) ==
    IF cx = 0
    THEN cursor_set(row_insert(w, cy, <<>>), 0, cy + 1)
    ELSE IF cy >= w.E.row_count THEN fault(w)
    ELSE cursor_set(row_cut(row_insert(w, cy + 1, Drop(w.E.rows[cy + 1].chars, cx)),
                            cx, cy),
                    0, cy + 1)

insert_newline(w) ==
    split_row(w, w.E.cx,
              IF w.E.cy > w.E.row_count
              THEN (IF w.E.row_count # 0 THEN w.E.row_count - 1 ELSE 0)
              ELSE w.E.cy)

delete_char(w) ==
    IF w.E.cy >= w.E.row_count \/ (w.E.cx = 0 /\ w.E.cy = 0) THEN w
    ELSE IF w.E.cx > 0
         THEN cursor_set(row_delete_char(w, w.E.cy, w.E.cx - 1), w.E.cx - 1, w.E.cy)
         ELSE cursor_set(row_delete(row_append_string(
                                        [w EXCEPT !.E.cx = Len(w.E.rows[w.E.cy].chars)],
                                        w.E.cy - 1,
                                        w.E.rows[w.E.cy + 1].chars),
                                    w.E.cy),
                         Len(w.E.rows[w.E.cy].chars), w.E.cy - 1)

(***************************************************************************)
(* File I/O.  fs maps a path to [exists, data].  The input in.io names the *)
(* system call that fails in this step ("ok": none).                       *)
(***************************************************************************)
NoFile == [exists |-> FALSE, data |-> <<>>]

\* a faulty strip_eol: the line keeps its line ending
strip_nothing(line) == line

RECURSIVE strip_eol(_)
strip_eol(line) ==
    IF Len(line) > 0 /\ (line[Len(line)] = NEWLINE \/ line[Len(line)] = RETURN)
    THEN strip_eol(Take(line, Len(line) - 1))
    ELSE line

\* the getline loop of open_file: line holds the bytes read since the last newline
RECURSIVE read_lines(_, _, _)
read_lines(w, data, line) ==
    IF data = <<>>
    THEN IF line = <<>> THEN w ELSE row_insert(w, w.E.row_count, strip_eol(line))
    ELSE IF Head(data) = NEWLINE
         THEN read_lines(row_insert(w, w.E.row_count, strip_eol(Append(line, NEWLINE))),
                         Tail(data), <<>>)
         ELSE read_lines(w, Tail(data), Append(line, Head(data)))

\* open_file from fopen on, the old rows freed and E.filename set to path
open_path(w, path, in) ==
    IF w.fs[path].exists /\ in.io # "fopen"
    THEN read_lines(w, w.fs[path].data, <<>>)
    ELSE statusmsg_set(w, IF in.io = "fopen" THEN "Could not open %s" ELSE "New file", <<>>)

open_file(w, filepath, in) ==
    IF filepath = NULL /\ w.E.filename = NULL
    THEN statusmsg_set(w, "No file name", <<>>)
    ELSE [open_path([w EXCEPT !.E.filename = IF filepath # NULL THEN filepath ELSE @,
                              !.E.rows = <<>>,
                              !.E.row_count = 0,
                              !.E.cx = 0,
                              !.E.cy = 0],
                    IF filepath # NULL THEN filepath ELSE w.E.filename,
                    in)
             EXCEPT !.E.dirty = FALSE]

\* the file at path after the calls of save_file up to the one that fails:
\* open creates it or cuts it to no bytes (O_CREAT | O_TRUNC), ftruncate
\* extends it to the length of buf with zero bytes, write stores buf
file_saved(old, buf, io) ==
    CASE io = "open" -> old
      [] io = "ftruncate" -> [exists |-> TRUE, data |-> <<>>]
      [] io = "write" -> [exists |-> TRUE, data |-> [i \in 1..Len(buf) |-> 0]]
      [] OTHER -> [exists |-> TRUE, data |-> buf]

\* a faulty save_file: the dirty flag is cleared whatever the calls returned
save_path_always_clean(w, path, in) ==
    [statusmsg_set([w EXCEPT !.fs[path] = file_saved(@, rows_to_string(w.E), in.io)],
                   IF in.io = "ok" THEN "\"%s\" %uL, %uB written." ELSE "%s",
                   IF in.io = "ok" THEN path ELSE <<>>)
        EXCEPT !.E.dirty = FALSE]

\* save_file from rows_to_string on, E.filename set
save_path(w, path, in) ==
    IF in.io = "ok"
    THEN [statusmsg_set([w EXCEPT !.fs[path] = file_saved(@, rows_to_string(w.E), in.io)],
                        "\"%s\" %uL, %uB written.", path)
             EXCEPT !.E.dirty = FALSE]
    ELSE statusmsg_set([w EXCEPT !.fs[path] = file_saved(@, rows_to_string(w.E), in.io)],
                       "%s", <<>>)

save_file(w, filepath, in) ==
    IF w.E.filename = NULL /\ filepath = NULL
    THEN statusmsg_set(w, "No file name", <<>>)
    ELSE save_path([w EXCEPT !.E.filename = IF @ = NULL THEN filepath ELSE @],
                   IF filepath # NULL THEN filepath ELSE w.E.filename,
                   in)

(***************************************************************************)
(* Command line.                                                           *)
(***************************************************************************)
NoCommand == [null |-> TRUE, s |-> <<>>]

\* The keys the prompt reads are keys[i..]; used is the number of keys read,
\* blocked is TRUE when the keys ran out before the prompt resolved.
RECURSIVE prompt_loop(_, _, _, _)
prompt_loop(w, buf, keys, i) ==
    IF i > Len(keys)
    THEN [w |-> statusmsg_set(w, ":%s", buf), cmd |-> NoCommand,
          used |-> i - 1, blocked |-> TRUE]
    ELSE IF keys[i] = ESCAPE \/ (keys[i] \in {CTRL_H, BACKSPACE} /\ Len(buf) = 0)
    THEN [w |-> statusmsg_set(w, "", <<>>), cmd |-> NoCommand,
          used |-> i, blocked |-> FALSE]
    ELSE IF keys[i] = RETURN
    THEN [w |-> statusmsg_set(w, ":%s", buf), cmd |-> [null |-> FALSE, s |-> buf],
          used |-> i, blocked |-> FALSE]
    ELSE prompt_loop(w,
                     IF keys[i] \in {CTRL_H, BACKSPACE} THEN Take(buf, Len(buf) - 1)
                     ELSE IF ~isprint(u8(keys[i])) THEN buf
                     ELSE Append(buf, u8(keys[i])),
                     keys, i + 1)

prompt(w, keys) == prompt_loop(w, <<>>, keys, 1)

RECURSIVE skip_space(_)
skip_space(s) == IF s # <<>> /\ isspace(Head(s)) THEN skip_space(Tail(s)) ELSE s

RECURSIVE trim_right(_)
trim_right(s) ==
    IF Len(s) > 0 /\ isspace(s[Len(s)]) THEN trim_right(Take(s, Len(s) - 1)) ELSE s

\* 1-based index of the first c in s, 0 when there is none
RECURSIVE strchr_from(_, _, _)
strchr_from(s, c, i) ==
    IF i > Len(s) THEN 0 ELSE IF s[i] = c THEN i ELSE strchr_from(s, c, i + 1)

exit(w, code) == [w EXCEPT !.halt = IF code = 0 THEN "exit0" ELSE "exit1"]

\* the token of the trimmed command s whose first space is at sp (0: none)
command_token(s, sp) == IF sp = 0 THEN s ELSE Take(s, sp - 1)

\* its argument: NULL without a space, else the rest after the spaces
command_arg(s, sp) == IF sp = 0 THEN NULL ELSE skip_space(Drop(s, sp))

\* a faulty eval_command: q and e skip the test of the dirty flag
run_command_unguarded(w, tok, arg, in) ==
    CASE tok \in {<<CH_q>>, <<CH_q, CH_bang>>} -> exit(w, 0)
      [] tok = <<CH_w>> -> save_file(w, arg, in)
      [] tok = <<CH_w, CH_q>> -> exit(save_file(w, arg, in), 0)
      [] tok \in {<<CH_e>>, <<CH_e, CH_bang>>} -> open_file(w, arg, in)
      [] OTHER -> statusmsg_set(w, "'%s' is not implemented", tok)

\* the if-chain of eval_command on the token tok and the argument arg
run_command(w, tok, arg, in) ==
    CASE tok = <<CH_q>> ->
            IF w.E.dirty
            THEN statusmsg_set(w, "No write since last change", <<>>)
            ELSE exit(w, 0)
      [] tok = <<CH_q, CH_bang>> -> exit(w, 0)
      [] tok = <<CH_w>> -> save_file(w, arg, in)
      [] tok = <<CH_w, CH_q>> -> exit(save_file(w, arg, in), 0)
      [] tok = <<CH_e>> ->
            IF w.E.dirty
            THEN statusmsg_set(w, "No write since last change", <<>>)
            ELSE open_file(w, arg, in)
      [] tok = <<CH_e, CH_bang>> -> open_file(w, arg, in)
      [] OTHER -> statusmsg_set(w, "'%s' is not implemented", tok)

\* eval_command on the trimmed command s
eval_trimmed(w, s, sp, in) ==
    IF s = <<>> THEN w
    ELSE run_command([w EXCEPT !.ev.cmd = command_token(s, sp),
                               !.ev.arg = command_arg(s, sp)],
                     command_token(s, sp), command_arg(s, sp), in)

eval_command(w, cmd, in) ==
    IF cmd.null THEN w
    ELSE eval_trimmed(w, trim_right(skip_space(cmd.s)),
                      strchr_from(trim_right(skip_space(cmd.s)), SPACE, 1), in)

(***************************************************************************)
(* Input handling: one call of process_keypress with the decoded key c.    *)
(***************************************************************************)
enter_insert(w) == IF w.halt # "none" THEN w ELSE [w EXCEPT !.E.mode = M_INSERT]

\* the motion that the Normal-mode keys I, a and A run before Insert mode
insert_motion(c) ==
    CASE c = CH_I -> CH_underscore
      [] c = CH_a -> CH_l
      [] c = CH_A -> CH_dollar

\* the switch on E.mode, cases M_NORMAL and M_INSERT
mode_switch(w, c, in) ==
    IF w.E.mode = M_NORMAL
    THEN CASE c = CH_i -> enter_insert(w)
           [] c \in {CH_I, CH_a, CH_A} ->
                 enter_insert(process_normal(w, insert_motion(c), in))
           [] c = CH_colon -> [w EXCEPT !.E.mode = M_COMMAND]
           [] OTHER -> process_normal(w, c, in)
    ELSE IF w.E.mode = M_INSERT
    THEN CASE c = CTRL_C \/ c = ESCAPE ->
                 process_normal([w EXCEPT !.E.mode = M_NORMAL], CH_h, in)
           [] c = RETURN -> insert_newline(w)
           [] c = BACKSPACE \/ c = CTRL_H -> delete_char(w)
           [] OTHER -> IF isprint(u8(c)) THEN insert_char(w, c) ELSE w
    ELSE w

\* case M_COMMAND after prompt returned p = [w, cmd]
command_entered(p, in) == eval_command(p.w, p.cmd, in)

\* a faulty process_keypress: the mode is left as the prompt found it
command_done_stay(w) == w

\* the end of case M_COMMAND
command_done(w) == IF w.halt # "none" THEN w ELSE [w EXCEPT !.E.mode = M_NORMAL]

\* the second switch of process_keypress, on the mode the first one left
command_switch(w, in) ==
    IF w.halt = "none" /\ w.E.mode = M_COMMAND
    THEN command_done(command_entered(prompt(w, in.keys), in))
    ELSE w

process_keypress(w, c, in) == command_switch(mode_switch(w, c, in), in)

(***************************************************************************)
(* Input decoding.  A stream holds, in order, the bytes the terminal sent  *)
(* and the program has not read yet; TIMEOUT stands for a pause of the     *)
(* sender longer than the read timeout set by enable_raw, during which a   *)
(* read returns 0.  A read at the end of the stream times out as well.     *)
(***************************************************************************)
TIMEOUT == 256
ARROW_DOWN == 1001
ARROW_LEFT == 1002
ARROW_RIGHT == 1003
DELETE == 1004
HOME == 1005
END == 1006
PAGE_UP == 1007
PAGE_DOWN == 1008
CH_bracket == 91
CH_tilde == 126
CH_1 == 49
CH_3 == 51
CH_4 == 52
CH_5 == 53
CH_6 == 54
CH_7 == 55
CH_8 == 56
CH_C == 67
CH_D == 68
CH_F == 70
CH_H == 72
CH_O == 79
\* a byte above 127, the first byte of a two-byte UTF-8 character
BYTE_C3 == 195

\* read(STDIN_FILENO, &c, 1): n is the value returned, rest the stream left
read(stream) ==
    IF stream = <<>> THEN [n |-> 0, c |-> 0, rest |-> <<>>]
    ELSE IF Head(stream) = TIMEOUT THEN [n |-> 0, c |-> 0, rest |-> Tail(stream)]
    ELSE [n |-> 1, c |-> Head(stream), rest |-> Tail(stream)]

\* the first loop of read_key repeats the reads that time out
RECURSIVE pending_input(_)
pending_input(stream) ==
    IF stream # <<>> /\ Head(stream) = TIMEOUT THEN pending_input(Tail(stream)) ELSE stream

\* the switch on seq[1] after "[", a digit and "~"
tilde_key(d) ==
    CASE d = CH_1 -> HOME
      [] d = CH_3 -> DELETE
      [] d = CH_4 -> END
      [] d = CH_5 -> PAGE_UP
      [] d = CH_6 -> PAGE_DOWN
      [] d = CH_7 -> HOME
      [] d = CH_8 -> END
      [] OTHER -> ESCAPE

\* the switch on seq[1] after "["; without a case the code falls to return c
bracket_key(s1) ==
    CASE s1 = CH_A -> ARROW_UP
      [] s1 = CH_B -> ARROW_DOWN
      [] s1 = CH_C -> ARROW_RIGHT
      [] s1 = CH_D -> ARROW_LEFT
      [] s1 = CH_F -> END
      [] s1 = CH_H -> HOME
      [] OTHER -> ESCAPE

\* the switch on seq[1] after "O"
o_key(s1) ==
    CASE s1 = CH_F -> END
      [] s1 = CH_H -> HOME
      [] OTHER -> ESCAPE

\* read_key after "[" and the digit d, r2 being the read of seq[2]
digit_seq(d, r2) ==
    [key |-> IF r2.n # 1 THEN ESCAPE
             ELSE IF r2.c = CH_tilde THEN tilde_key(d)
             ELSE bracket_key(d),
     rest |-> r2.rest]

\* read_key after seq[0] = s0 was read, r1 being the read of seq[1]
escape_seq(s0, r1) ==
    IF r1.n # 1 THEN [key |-> ESCAPE, rest |-> r1.rest]
    ELSE IF s0 = CH_bracket /\ isdigit(r1.c) THEN digit_seq(r1.c, read(r1.rest))
    ELSE [key |-> CASE s0 = CH_bracket -> bracket_key(r1.c)
                    [] s0 = CH_O -> o_key(r1.c)
                    [] OTHER -> ESCAPE,
          rest |-> r1.rest]

\* read_key after the byte ESC, r0 being the read of seq[0]
escape_read(r0) ==
    IF r0.n # 1 THEN [key |-> ESCAPE, rest |-> r0.rest]
    ELSE escape_seq(r0.c, read(r0.rest))

\* return c: the char c converted to u32.  Whether char is signed is up to
\* the build (in.char_signed); a signed char above 127 is sign-extended.
char_key(c, in) == IF in.char_signed /\ c >= 128 THEN c - 256 ELSE c

\* read_key after its first loop read the byte r.c
key_read(r, in) ==
    IF r.c = ESCAPE THEN escape_read(read(r.rest))
    ELSE [key |-> char_key(r.c, in), rest |-> r.rest]

\* the result is [key, rest]; the stream holds a byte
read_key(stream, in) == key_read(read(pending_input(stream)), in)

\* the keys read_key returns while the stream holds bytes, each with its rest
RECURSIVE read_keys(_, _)
read_keys(stream, in) ==
    IF pending_input(stream) = <<>> THEN <<>>
    ELSE <<read_key(stream, in)>> \o read_keys(read_key(stream, in).rest, in)

(***************************************************************************)
(* The process: init_editor, main and the main loop.                       *)
(*   E          the editor context (struct editor)                         *)
(*   fs         the files, by path                                         *)
(*   pc         where the process is: "init_editor" (before enable_raw),   *)
(*              "get_winsize", "main" (before the argument is opened),     *)
(*              "loop" (blocked in read_key after refresh_screen),         *)
(*              "exited" (after exit) or "killed" (by a signal)            *)
(*   raw        TRUE while the terminal is in raw mode                     *)
(*   atexit     TRUE once cleanup_editor is registered with atexit         *)
(*   exit_code  the exit status, -1 while there is none                    *)
(*   ev         what the last call of process_keypress did: the key, the   *)
(*              mode it was pressed in, whether the motion engine ran and  *)
(*              the operator that was pending and the count when it did,   *)
(*              whether a row or motion-table access was out of range, the *)
(*              command token and argument evaluated, the failing call     *)
(*   commands   the number of command lines entered at the ':' prompt      *)
(*   stdin      the stream of bytes the terminal sent that read_key has    *)
(*              not read; empty where the keys are given already decoded   *)
(***************************************************************************)
VARIABLES E, fs, pc, raw, atexit, exit_code, ev, commands, stdin

vars == <<E, fs, pc, raw, atexit, exit_code, ev, commands, stdin>>

File_f == <<CH_f>>
Paths == {File_f}

\* a file of two lines, "\tx\n" and "x" (no final newline)
TabFile == [exists |-> TRUE, data |-> <<TAB, CH_x, NEWLINE, CH_x>>]
\* a file of two lines, "\rx\n" and "\t\r" (ended by CR, no final newline)
CrFile == [exists |-> TRUE, data |-> <<RETURN, CH_x, NEWLINE, TAB, RETURN>>]

\* terminal sizes reported by get_winsize: [rows, cols]
WinSizes == {[rows |-> 3, cols |-> 6]}

NoKeys == <<>>
NoInput ==
    [keys |-> NoKeys, io |-> "ok", ub |-> "read", garbage |-> 0, char_signed |-> TRUE,
     alloc |-> "none"]

\* the outcomes of an access outside an array
GarbageLens == {0, 1}
UbInputs ==
    {[NoInput EXCEPT !.ub = "segv"]} \cup {[NoInput EXCEPT !.garbage = g] : g \in GarbageLens}

\* the keys pressed in Normal and in Insert mode
NormalKeys ==
    {CH_0, CH_2, CH_c, CH_d, CH_y, CH_h, CH_j, CH_k, CH_l, CH_underscore, CH_dollar,
     CH_g, CH_G, CH_w, CH_i, CH_I, CH_a, CH_A, ARROW_UP}
InsertKeys == {ESCAPE, CTRL_C, RETURN, BACKSPACE, CTRL_H, CH_x, TAB}

\* key sequences typed at the ':' prompt, each resolving the prompt with its last key
CancelKeys == {<<ESCAPE>>, <<BACKSPACE>>, <<CH_q, CTRL_H, BACKSPACE>>}
QuitKeys ==
    {<<CH_q, RETURN>>, <<SPACE, CH_q, SPACE, RETURN>>, <<CH_q, CH_bang, RETURN>>,
     <<CH_q, SPACE, CH_f, RETURN>>}
SaveKeys ==
    {<<CH_w, RETURN>>, <<CH_w, SPACE, CH_f, RETURN>>,
     <<CH_w, CH_q, RETURN>>, <<CH_w, CH_q, SPACE, CH_f, RETURN>>}
OpenKeys ==
    {<<CH_e, RETURN>>, <<CH_e, SPACE, CH_f, RETURN>>,
     <<CH_e, CH_bang, RETURN>>, <<CH_e, CH_bang, SPACE, CH_f, RETURN>>}
OtherKeys == {<<RETURN>>, <<CH_x, TAB, RETURN>>}

SaveFailures == {"ok", "open", "ftruncate", "write", "fsync"}
OpenFailures == {"ok", "fopen"}

IoInputs(keyseqs, failures) ==
    {[NoInput EXCEPT !.keys = k, !.io = f] : k \in keyseqs, f \in failures}

\* the prompt inputs with the system calls that may fail while they are evaluated
PromptInputs ==
    IoInputs(CancelKeys \cup QuitKeys \cup OtherKeys, {"ok"})
        \cup IoInputs(SaveKeys, SaveFailures) \cup IoInputs(OpenKeys, OpenFailures)

NoEvent ==
    [key |-> 0, mode |-> "", motion |-> FALSE, op |-> OP_NONE, count |-> 0,
     oob |-> FALSE, tbl |-> FALSE, cmd |-> <<>>, arg |-> <<>>, io |-> "ok",
     alloc |-> "none", trap |-> FALSE, nomem |-> FALSE]

\* the world a handler runs in; halt is "none" until the handler ends the process
World(e) == [E |-> E, fs |-> fs, halt |-> "none", ev |-> e]

\* memset(&E, 0, sizeof(E))
ZeroE ==
    [mode |-> M_NORMAL, pending_op |-> OP_NONE, pending_count |-> 0,
     cx |-> 0, cy |-> 0, rx |-> 0, ry |-> 0,
     screen_rows |-> 0, screen_cols |-> 0, row_offset |-> 0, col_offset |-> 0,
     row_count |-> 0, rows |-> <<>>, dirty |-> FALSE, filename |-> NULL,
     statusmsg |-> [fmt |-> "", arg |-> <<>>]]

\* the process before init_editor, with the files in files
Start(files, typed) ==
    /\ E = ZeroE
    /\ stdin \in typed
    /\ fs \in [Paths -> files]
    /\ pc = "init_editor"
    /\ raw = FALSE
    /\ atexit = FALSE
    /\ exit_code = -1
    /\ ev = NoEvent
    /\ commands = 0

\* exit(code): the registered exit hook cleanup_editor runs disable_raw
exit_process(code) ==
    /\ pc' = "exited"
    /\ exit_code' = code
    /\ raw' = IF atexit THEN FALSE ELSE raw

\* die(s) ends in exit(1)
die == exit_process(1)

\* the process is killed by a signal: no exit hook runs
killed ==
    /\ pc' = "killed"
    /\ exit_code' = exit_code
    /\ raw' = raw

\* the end of a handler that ran in world w
finish(w) ==
    /\ E' = w.E
    /\ fs' = w.fs
    /\ ev' = w.ev
    /\ atexit' = atexit
    /\ CASE w.halt = "exit0" -> exit_process(0)
         [] w.halt = "exit1" -> exit_process(1)
         [] w.halt = "segv" -> killed
         [] OTHER -> /\ pc' = "loop"
                     /\ UNCHANGED <<raw, exit_code>>

\* init_editor up to enable_raw; failing names the call that returns -1
EnableRaw ==
    /\ pc = "init_editor"
    /\ \E failing \in {"none", "tcgetattr", "tcsetattr"} :
          IF failing = "none"
          THEN /\ raw' = TRUE
               /\ pc' = "get_winsize"
               /\ UNCHANGED exit_code
          ELSE die
    /\ E' = ZeroE
    /\ UNCHANGED <<fs, atexit, ev, commands, stdin>>

\* the rest of init_editor: get_winsize (which may fail), motions_init, atexit
GetWinsize ==
    /\ pc = "get_winsize"
    /\ \E ws \in WinSizes, failing \in BOOLEAN :
          IF failing
          THEN /\ die
               /\ UNCHANGED <<E, atexit>>
          ELSE /\ E' = [E EXCEPT !.screen_rows = ws.rows - 2, !.screen_cols = ws.cols]
               /\ atexit' = TRUE
               /\ pc' = "main"
               /\ UNCHANGED <<raw, exit_code>>
    /\ UNCHANGED <<fs, ev, commands, stdin>>

\* main: open the file named on the command line, if any, and draw the first frame
Main ==
    /\ pc = "main"
    /\ \E argv1 \in {NULL} \cup Paths, in \in IoInputs({NoKeys}, OpenFailures) :
          finish(refresh_screen(IF argv1 # NULL
                                THEN open_file(World(NoEvent), argv1, in)
                                ELSE World(NoEvent)))
    /\ UNCHANGED <<commands, stdin>>

\* the guards that keep the buffer and the count inside the bounds of the model
WithinBounds(c) ==
    IF E.mode = M_NORMAL
    THEN (isdigit(c) /\ ~(E.pending_count = 0 /\ c = CH_0))
            => E.pending_count * 10 + (c - CH_0) <= MaxCount
    ELSE /\ c = RETURN => E.row_count < MaxRows
         /\ (isprint(c) /\ E.cy < E.row_count)
               => Len(E.rows[E.cy + 1].chars) < MaxLen
         /\ (isprint(c) /\ E.cy >= E.row_count) => E.row_count < MaxRows
         /\ (c \in {BACKSPACE, CTRL_H} /\ E.cx = 0 /\ E.cy > 0 /\ E.cy < E.row_count)
               => Len(E.rows[E.cy].chars) + Len(E.rows[E.cy + 1].chars) <= MaxLen

\* the inputs that decide the outcome of an access outside an array, where the
\* key c can lead to one
UbInputsFor(c) ==
    IF E.row_count = 0 \/ c >= MOTIONS_ENTRIES THEN UbInputs ELSE {NoInput}

KeyEvent(c, in) ==
    [NoEvent EXCEPT !.key = c, !.mode = E.mode, !.io = in.io,
                    !.alloc = in.alloc,
                    !.trap = in.alloc # "none" /\ in.ub = "segv"]

\* one turn of the main loop: process_keypress, then the next refresh_screen
\* the refresh_screen at the top of the next turn, unless the process ended
next_frame(w) == IF w.halt = "none" THEN refresh_screen(w) ELSE w

step(c, in) == finish(next_frame(process_keypress(World(KeyEvent(c, in)), c, in)))

NormalKey(keys) ==
    /\ pc = "loop"
    /\ E.mode = M_NORMAL
    /\ \E c \in keys :
          /\ WithinBounds(c)
          /\ \E in \in UbInputsFor(c) : step(c, in)
    /\ UNCHANGED <<commands, stdin>>

InsertKey(keys) ==
    /\ pc = "loop"
    /\ E.mode = M_INSERT
    /\ \E c \in keys :
          /\ WithinBounds(c)
          /\ \E in \in UbInputsFor(c) : step(c, in)
    /\ UNCHANGED <<commands, stdin>>

\* the allocations of one kind fail while a key is handled
AllocInputs ==
    {[NoInput EXCEPT !.alloc = "rows"], [NoInput EXCEPT !.alloc = "render"],
     [NoInput EXCEPT !.alloc = "chars"], [NoInput EXCEPT !.alloc = "chars", !.ub = "segv"]}

\* a key of Insert mode that changes the buffer, pressed when memory has run out
InsertKeyNoMemory(keys) ==
    /\ pc = "loop"
    /\ E.mode = M_INSERT
    /\ \E c \in keys :
          /\ WithinBounds(c)
          /\ \E in \in AllocInputs : step(c, in)
    /\ UNCHANGED <<commands, stdin>>

\* the ':' key in Normal mode, with the keys the prompt then reads
CommandKey(inputs) ==
    /\ pc = "loop"
    /\ E.mode = M_NORMAL
    /\ commands < MaxCommands
    /\ commands' = commands + 1
    /\ \E in \in inputs :
          /\ LET p == prompt(World(NoEvent), in.keys)
             IN ~p.blocked /\ p.used = Len(in.keys)
          /\ step(CH_colon, in)
    /\ UNCHANGED stdin

(***************************************************************************)
(* Spec: the keys of Normal and Insert mode on an empty buffer and on a    *)
(* loaded one, the prompt cancelled or quitting.                           *)
(***************************************************************************)
EditPromptInputs == IoInputs({<<ESCAPE>>, <<BACKSPACE>>, <<CH_q, RETURN>>}, {"ok"})

Init == Start({TabFile}, {NoKeys})

Next ==
    \/ EnableRaw
    \/ GetWinsize
    \/ Main
    \/ NormalKey(NormalKeys)
    \/ InsertKey(InsertKeys)
    \/ InsertKeyNoMemory({RETURN, BACKSPACE, CH_x})
    \/ CommandKey(EditPromptInputs)

Spec == Init /\ [][Next]_vars

(***************************************************************************)
(* SpecFile: every command of the prompt with every failing system call,   *)
(* and the keys that build and change a buffer.                            *)
(***************************************************************************)
FileNormalKeys == {CH_i, CH_A}
FileInsertKeys == {ESCAPE, RETURN, BACKSPACE, CH_a, CH_b}

NextFile ==
    \/ EnableRaw
    \/ GetWinsize
    \/ Main
    \/ NormalKey(FileNormalKeys)
    \/ InsertKey(FileInsertKeys)
    \/ CommandKey(PromptInputs)

InitFile == Start({NoFile, CrFile}, {NoKeys})

SpecFile == InitFile /\ [][NextFile]_vars

(***************************************************************************)
(* SpecMotion: the motions h, j, k, l, _, $, g and G from every valid      *)
(* cursor position of a loaded buffer, with every pending count of         *)
(* MotionCounts.  The states of InitMotion are the ones the editor is in   *)
(* after the file was opened, the cursor was moved with l and j and the    *)
(* digits of the count were typed ("4294967295" for U32_MAX).              *)
(***************************************************************************)
\* the largest u32 value, 4294967295
U32_MAX == -1

\* the rows "abc", "def"
AbcDefFile ==
    [exists |-> TRUE, data |-> <<CH_a, CH_b, CH_c, NEWLINE, CH_d, CH_e, CH_f, NEWLINE>>]
\* the rows "ab", "", "abc"
ThreeRowFile ==
    [exists |-> TRUE, data |-> <<CH_a, CH_b, NEWLINE, NEWLINE, CH_a, CH_b, CH_c, NEWLINE>>]
\* the row "a"
OneRowFile == [exists |-> TRUE, data |-> <<CH_a>>]

MotionFiles == {AbcDefFile, ThreeRowFile, OneRowFile}
\* the pending counts: none, and the counts typed as 2, 3, 9 and 4294967295
MotionCounts == {0, 2, 3, 9, U32_MAX}
MotionKeys == {CH_h, CH_j, CH_k, CH_l, CH_underscore, CH_dollar, CH_g, CH_G}

\* the editor after main opened file in a terminal of size ws
Opened(file, ws) ==
    refresh_screen(open_file([E |-> [ZeroE EXCEPT !.screen_rows = ws.rows - 2,
                                                  !.screen_cols = ws.cols],
                              fs |-> [p \in Paths |-> file],
                              halt |-> "none",
                              ev |-> NoEvent],
                             File_f, NoInput))

\* the editor waiting for a key with the cursor at (x, y) and count pending
Waiting(w, x, y, count) ==
    refresh_screen([w EXCEPT !.E.cx = x, !.E.cy = y, !.E.pending_count = count])

ValidPositions(e) ==
    {p \in (0..3) \X (0..2) :
        p[2] < e.row_count /\ p[1] <= Len(e.rows[p[2] + 1].chars)}

InitMotion ==
    /\ \E file \in MotionFiles, ws \in WinSizes, count \in MotionCounts :
          \E p \in ValidPositions(Opened(file, ws).E) :
             /\ E = Waiting(Opened(file, ws), p[1], p[2], count).E
             /\ fs = [q \in Paths |-> file]
    /\ pc = "loop"
    /\ raw = TRUE
    /\ atexit = TRUE
    /\ exit_code = -1
    /\ ev = NoEvent
    /\ commands = 0
    /\ stdin = NoKeys

NextMotion == NormalKey(MotionKeys)

SpecMotion == InitMotion /\ [][NextMotion]_vars

(***************************************************************************)
(* SpecInput: the editor started without rows or with the row "a\tx" and   *)
(* fed the bytes of stdin, which read_key decodes: every sequence of up to *)
(* four of the bytes that escape sequences are made of, with pauses, and   *)
(* typed text.  The input is finite, so no guard bounds the buffer.        *)
(***************************************************************************)
MaxTokens == 4

FirstBytes == {ESCAPE, CH_x, BYTE_C3}
SecondBytes == {CH_bracket, CH_O, CH_x, TIMEOUT}
ThirdBytes ==
    {CH_1, CH_2, CH_3, CH_4, CH_5, CH_6, CH_7, CH_8,
     CH_A, CH_B, CH_C, CH_D, CH_F, CH_H, CH_x, TIMEOUT}
FourthBytes == {CH_tilde, CH_x, TIMEOUT}

EscapeInputs ==
    {<<a>> : a \in FirstBytes}
        \cup {<<a, b>> : a \in FirstBytes, b \in SecondBytes}
        \cup {<<a, b, c>> : a \in FirstBytes, b \in SecondBytes, c \in ThirdBytes}
        \cup {<<a, b, c, d>> : a \in FirstBytes, b \in SecondBytes,
                               c \in ThirdBytes, d \in FourthBytes}

\* what is typed in Insert mode: a character, Return, Backspace, or Escape,
\* a pause, k and i (one column left, one row up, Insert mode again)
Tokens == {<<CH_a>>, <<CH_x>>, <<RETURN>>, <<BACKSPACE>>, <<ESCAPE, TIMEOUT, CH_k, CH_i>>}

RECURSIVE TokenSeqs(_)
TokenSeqs(n) ==
    IF n = 0 THEN {<<>>}
    ELSE TokenSeqs(n - 1) \cup {s \o t : s \in TokenSeqs(n - 1), t \in Tokens}

\* Insert mode entered at the cursor or at the row end, then the tokens
EditInputs == {<<k>> \o s : k \in {CH_i, CH_A}, s \in TokenSeqs(MaxTokens)}

\* a file of one line, "a\tx" (a tab inside the row, no final newline)
TabInsideFile == [exists |-> TRUE, data |-> <<CH_a, TAB, CH_x>>]

\* "hi", Return, "bye" typed in Insert mode; command lines typed after edits
ScenarioInputs ==
    {<<CH_i, CH_h, CH_i, RETURN, CH_b, CH_y, CH_e>>,
     <<CH_colon, CH_q, RETURN>>,
     <<CH_i, CH_x, ESCAPE, TIMEOUT, CH_colon, CH_q, RETURN, CH_colon, ESCAPE>>}

TypedInputs == EscapeInputs \cup EditInputs \cup ScenarioInputs

\* the builds: char is signed or unsigned, which shows on a byte above 127
Builds(stream) ==
    {[NoInput EXCEPT !.char_signed = s] :
        s \in IF Head(pending_input(stream)) >= 128 THEN BOOLEAN ELSE {TRUE}}

\* process_keypress with the key k = [key, rest] that read_key returned
key_typed(k, build) ==
    /\ ~(E.mode = M_NORMAL /\ k.key = CH_colon)
    /\ \E in \in UbInputsFor(k.key) :
          step(k.key, [in EXCEPT !.char_signed = build.char_signed])
    /\ stdin' = k.rest

TypedKey ==
    /\ pc = "loop"
    /\ pending_input(stdin) # <<>>
    /\ \E build \in Builds(stdin) : key_typed(read_key(stdin, build), build)
    /\ UNCHANGED commands

\* the keys ks = read_keys(...) follow a ':' typed in Normal mode; the prompt
\* reads them up to the one that resolves it
command_typed(ks, p) ==
    /\ ~p.blocked
    /\ step(CH_colon, [NoInput EXCEPT !.keys = [i \in 1..p.used |-> ks[i].key]])
    /\ stdin' = ks[p.used].rest

prompt_typed(ks) ==
    command_typed(ks, prompt(World(NoEvent), [i \in 1..Len(ks) |-> ks[i].key]))

TypedCommand ==
    /\ pc = "loop"
    /\ E.mode = M_NORMAL
    /\ pending_input(stdin) # <<>>
    /\ read_key(stdin, NoInput).key = CH_colon
    /\ prompt_typed(read_keys(read_key(stdin, NoInput).rest, NoInput))
    /\ commands' = commands + 1

\* the first read of read_key returns -1 with an error other than EAGAIN
ReadFails ==
    /\ pc = "loop"
    /\ finish([World(NoEvent) EXCEPT !.halt = "exit1"])
    /\ UNCHANGED <<commands, stdin>>

InitInput == Start({NoFile, TabInsideFile}, TypedInputs)

NextInput ==
    \/ EnableRaw
    \/ GetWinsize
    \/ Main
    \/ TypedKey
    \/ TypedCommand
    \/ ReadFails

SpecInput == InitInput /\ [][NextInput]_vars

(***************************************************************************)
(* Properties.  A property of one turn of the main loop relates the state  *)
(* before the key to the state after it; ev' names the key and, for a      *)
(* command line, the command.                                              *)
(***************************************************************************)
RowChars(e) == [i \in 1..Len(e.rows) |-> e.rows[i].chars]

CursorValid(e) ==
    /\ IF e.row_count > 0 THEN e.cy < e.row_count ELSE e.cy = 0
    /\ e.cx <= (IF e.cy < e.row_count THEN Len(e.rows[e.cy + 1].chars) ELSE 0)

\* C1: after every processed key the cursor is valid: cy < row_count when
\* the buffer has rows and cy = 0 when it has none, and cx is at most the
\* length of row cy.
C1_cursor_valid == pc = "loop" => CursorValid(E)

EmptyBufferMotionKeys ==
    {CH_j, CH_k, CH_underscore, CH_dollar, CH_g, CH_G, CH_I, CH_A}

\* C2: no key indexes a row at or past row_count, and the motions j, k, _, $,
\* g, G and the keys I and A pressed on a buffer without rows leave the
\* editor running.
C2_rows_indexed_in_range ==
    /\ ~ev.oob
    /\ (ev.mode = M_NORMAL /\ ev.key \in EmptyBufferMotionKeys /\ E.row_count = 0)
          => pc = "loop"

\* C3: whenever the process has exited, the terminal is out of raw mode.
C3_terminal_restored == pc = "exited" => ~raw

\* one command line was entered and evaluated to a token of toks
CommandStep(toks) ==
    /\ pc = "loop"
    /\ commands' = commands + 1
    /\ ev'.cmd \in toks

\* the path the command works on: its argument, else the current file name
CommandPath == IF ev'.arg # NULL THEN ev'.arg ELSE E.filename

GuardMessage == [fmt |-> "No write since last change", arg |-> <<>>]

BufferKept ==
    /\ E'.rows = E.rows
    /\ E'.row_count = E.row_count
    /\ E'.cx = E.cx
    /\ E'.cy = E.cy
    /\ E'.filename = E.filename
    /\ E'.dirty = E.dirty

\* the rows of a file that holds data, or of none
FileRows(file, io) ==
    IF file.exists /\ io = "ok"
    THEN RowChars(read_lines([E |-> ZeroE, fs |-> fs, halt |-> "none", ev |-> NoEvent],
                            file.data, <<>>).E)
    ELSE <<>>

Reloaded ==
    /\ pc' = "loop"
    /\ E'.filename = CommandPath
    /\ E'.dirty = FALSE
    /\ E'.cx = 0
    /\ E'.cy = 0
    /\ E'.row_count = Len(E'.rows)
    /\ RowChars(E') = FileRows(fs[CommandPath], ev'.io)

\* C4: with the dirty flag set, q and e (with or without an argument) neither
\* exit nor reload: they report the guard message and leave rows, row count,
\* cursor, file name and dirty flag unchanged.  With the flag clear, q exits
\* with code 0 and e reloads the path it is given or the current file name
\* (with neither, there is nothing to reload and e reports "No file name").
C4_unsaved_guard ==
    [][CommandStep({<<CH_q>>, <<CH_e>>}) =>
          IF E.dirty
          THEN pc' = "loop" /\ E'.statusmsg = GuardMessage /\ BufferKept /\ fs' = fs
          ELSE IF ev'.cmd = <<CH_q>> THEN pc' = "exited" /\ exit_code' = 0
          ELSE IF CommandPath # NULL THEN Reloaded
          ELSE pc' = "loop" /\ E'.statusmsg.fmt = "No file name" /\ BufferKept]_vars

\* the guard stopped e on a changed buffer
C4_guard_reached ==
    /\ pc = "loop"
    /\ ev.cmd = <<CH_e>>
    /\ E.dirty
    /\ E.row_count > 0
    /\ E.statusmsg = GuardMessage

\* a step of the save failed: no file name is known, or a system call failed
SaveFailed == ev'.io # "ok" \/ CommandPath = NULL

\* C5: a save clears the dirty flag only when a file name is known and open,
\* truncate, write and sync all succeed; a save that fails leaves the dirty
\* flag and the rows unchanged and reports an error message.
C5_save_clears_dirty ==
    [][CommandStep({<<CH_w>>, <<CH_w, CH_q>>}) =>
          /\ E'.rows = E.rows
          /\ E'.row_count = E.row_count
          /\ IF SaveFailed
             THEN E'.dirty = E.dirty /\ E'.statusmsg.fmt \in {"%s", "No file name"}
             ELSE E'.dirty = FALSE]_vars

\* a write failed on a changed buffer
C5_failed_save_reached ==
    /\ ev.cmd = <<CH_w>>
    /\ ev.io = "write"
    /\ E.dirty
    /\ E.row_count > 0
    /\ E.statusmsg.fmt = "%s"

NoRowHolds(e, c) ==
    \A i \in 1..Len(e.rows) : \A k \in 1..Len(e.rows[i].chars) : e.rows[i].chars[k] # c

NoRowEndsWith(e, c) ==
    \A i \in 1..Len(e.rows) :
        e.rows[i].chars = <<>> \/ e.rows[i].chars[Len(e.rows[i].chars)] # c

\* the buffer is reloaded from a file that holds the bytes a save of it wrote
ReloadOfSaved ==
    /\ CommandStep({<<CH_e>>, <<CH_e, CH_bang>>})
    /\ ev'.cmd = <<CH_e>> => ~E.dirty
    /\ ev'.io = "ok"
    /\ CommandPath # NULL
    /\ fs[CommandPath].exists
    /\ fs[CommandPath].data = rows_to_string(E)
    /\ NoRowHolds(E, NEWLINE)

\* C6 as stated: saving a buffer whose rows hold no newline and loading the
\* saved bytes yields the same rows, whatever other bytes the rows hold.
C6_round_trip_any_row ==
    [][ReloadOfSaved => (E'.row_count = E.row_count /\ RowChars(E') = RowChars(E))]_vars

\* C6: saving a buffer whose rows hold no newline and do not end with a
\* carriage return, and loading the saved bytes, yields the same rows.
C6_round_trip ==
    [][(ReloadOfSaved /\ NoRowEndsWith(E, RETURN)) =>
          (E'.row_count = E.row_count /\ RowChars(E') = RowChars(E))]_vars

\* a saved buffer of two rows, one holding a carriage return and one a tab,
\* was reloaded
C6_reload_reached ==
    /\ pc = "loop"
    /\ ev.cmd \in {<<CH_e>>, <<CH_e, CH_bang>>}
    /\ ev.io = "ok"
    /\ E.filename # NULL
    /\ fs[E.filename].data = rows_to_string(E)
    /\ RowChars(E) = <<(<<RETURN, CH_x>>), (<<TAB>>)>>

RECURSIVE Serialized(_)
Serialized(lines) ==
    IF lines = <<>> THEN <<>>
    ELSE Head(lines) \o <<NEWLINE>> \o Serialized(Tail(lines))

RECURSIVE SumLen(_)
SumLen(lines) == IF lines = <<>> THEN 0 ELSE Len(Head(lines)) + SumLen(Tail(lines))

\* C7: the bytes a successful w or wq leaves in the file are each row's
\* characters followed by one newline, in row order; their number is the sum
\* of the row lengths plus the row count; a buffer without rows writes no
\* byte; and wq then exits with code 0.
C7_bytes_written ==
    [][(CommandStep({<<CH_w>>, <<CH_w, CH_q>>}) /\ ~SaveFailed) =>
          /\ fs'[CommandPath].exists
          /\ fs'[CommandPath].data = Serialized(RowChars(E))
          /\ Len(fs'[CommandPath].data) = SumLen(RowChars(E)) + E.row_count
          /\ E.row_count = 0 => fs'[CommandPath].data = <<>>
          /\ ev'.cmd = <<CH_w, CH_q>> => (pc' = "exited" /\ exit_code' = 0)]_vars

\* wq with a file argument on the rows "a", "b" left a\nb\n and exited with 0
C7_wq_reached ==
    /\ pc = "exited"
    /\ exit_code = 0
    /\ ev.cmd = <<CH_w, CH_q>>
    /\ ev.arg = File_f
    /\ RowChars(E) = <<(<<CH_a>>), (<<CH_b>>)>>
    /\ fs[File_f].data = <<CH_a, NEWLINE, CH_b, NEWLINE>>

\* C8: after the scroll recomputation of every render, with at least one
\* screen row and column, row_offset <= ry < row_offset + screen_rows and
\* col_offset <= rx < col_offset + screen_cols.
C8_scroll_invariant ==
    (pc = "loop" /\ E.screen_rows >= 1 /\ E.screen_cols >= 1) =>
        /\ E.row_offset <= E.ry
        /\ E.ry < E.row_offset + E.screen_rows
        /\ E.col_offset <= E.rx
        /\ E.rx < E.col_offset + E.screen_cols

\* the window was scrolled down and to the right
C8_scrolled_reached ==
    /\ pc = "loop"
    /\ E.row_offset > 0
    /\ E.col_offset > 0
    /\ E.ry = E.cy
    /\ E.rx > E.cx

\* C9: once Normal-mode processing has resolved a motion key, registered or
\* not, with or without a pending operator, pending_count is 0 and
\* pending_op is OP_NONE.
C9_pending_cleared ==
    (pc = "loop" /\ ev.motion) => (E.pending_count = 0 /\ E.pending_op = OP_NONE)

\* a motion was resolved while an operator was pending
C9_operator_resolved_reached ==
    /\ pc = "loop"
    /\ ev.motion
    /\ ev.op = OP_DELETE
    /\ ev.key = CH_j

\* C10: in Insert mode, Escape or Ctrl-C switches to Normal mode and moves
\* the cursor one column left on the same row (not at column 0), whatever was
\* pressed in Normal mode before; no other Insert-mode key changes the mode.
C10_insert_escape ==
    [][(pc = "loop" /\ pc' = "loop" /\ E.mode = M_INSERT /\ ev'.mode = M_INSERT) =>
          IF ev'.key \in {ESCAPE, CTRL_C}
          THEN /\ E'.mode = M_NORMAL
               /\ E'.cy = E.cy
               /\ E'.cx = IF E.cx = 0 THEN 0 ELSE E.cx - 1
          ELSE E'.mode = M_INSERT]_vars

\* the length of the row the cursor is on
CursorRowLen(e) == Len(e.rows[e.cy + 1].chars)

\* one key was processed in Normal mode and the editor runs on
NormalStep(keys) ==
    /\ pc = "loop"
    /\ pc' = "loop"
    /\ E.mode = M_NORMAL
    /\ ev'.mode = M_NORMAL
    /\ ev'.key \in keys

\* C11: in Normal mode with the cursor on a row, for any pending count and
\* operator, i, I, a and A enter Insert mode with the cursor on the same row,
\* at the unchanged column (i), column 0 (I), min(cx + 1, row length) (a) and
\* the row length (A).
C11_insert_entry ==
    [][(NormalStep({CH_i, CH_I, CH_a, CH_A}) /\ CursorValid(E) /\ E.row_count > 0) =>
          /\ E'.mode = M_INSERT
          /\ E'.cy = E.cy
          /\ E'.cx = CASE ev'.key = CH_i -> E.cx
                       [] ev'.key = CH_I -> 0
                       [] ev'.key = CH_a ->
                             IF E.cx + 1 < CursorRowLen(E) THEN E.cx + 1 ELSE CursorRowLen(E)
                       [] ev'.key = CH_A -> CursorRowLen(E)]_vars

\* C12: whenever the main loop waits for a key the mode is Normal or Insert;
\* a ':' pressed in Normal mode ends in Normal mode or in the exit of the
\* process, however the prompt resolves; the mode is never Visual.
C12_modes ==
    /\ pc = "loop" => E.mode \in {M_NORMAL, M_INSERT}
    /\ (ev.key = CH_colon /\ ev.mode = M_NORMAL) =>
          (pc = "exited" \/ (pc = "loop" /\ E.mode = M_NORMAL))
    /\ E.mode # M_VISUAL

\* two prompts were cancelled and the editor waits in Normal mode
C12_prompt_cancelled_reached ==
    /\ pc = "loop"
    /\ commands = 2
    /\ ev.key = CH_colon
    /\ ev.mode = M_NORMAL
    /\ E.mode = M_NORMAL
    /\ E.statusmsg = [fmt |-> "", arg |-> <<>>]

\* the keys process_keypress and process_normal handle before the motion engine
HandledBeforeMotion == {CH_i, CH_I, CH_a, CH_A, CH_colon, CH_c, CH_d, CH_y}

\* C13: a key without a registered motion that reaches the motion engine in
\* Normal mode consults the motion table only inside its 128 entries, reports
\* an error message and leaves the cursor unchanged.
C13_unregistered_key ==
    [][(/\ pc = "loop"
        /\ E.mode = M_NORMAL
        /\ ev'.mode = M_NORMAL
        /\ ev'.motion
        /\ ev'.key \notin HandledBeforeMotion
        /\ motions(ev'.key) = "") =>
          /\ ~ev'.tbl
          /\ pc' = "loop"
          /\ E'.statusmsg.fmt = "'%c' is not implemented"
          /\ E'.cx = E.cx
          /\ E'.cy = E.cy]_vars

\* one key was processed in Insert mode and the editor runs on
InsertStep(keys) ==
    /\ pc = "loop"
    /\ pc' = "loop"
    /\ E.mode = M_INSERT
    /\ ev'.mode = M_INSERT
    /\ ev'.key \in keys

\* the rows of e with the character at column at of row cy removed
WithoutChar(e, cy, at) ==
    [RowChars(e) EXCEPT ![cy + 1] = Take(@, at) \o Drop(@, at + 1)]

\* the rows of e with row cy appended to row cy - 1 and removed
Joined(e, cy) ==
    Take(RowChars(e), cy - 1)
        \o <<RowChars(e)[cy] \o RowChars(e)[cy + 1]>>
        \o Drop(RowChars(e), cy + 1)

\* C19: in every reachable Insert-mode state Backspace or Ctrl-H removes the
\* character before the cursor and decrements cx when cx > 0, joins row cy
\* to row cy - 1 and puts the cursor at (former length of row cy - 1, cy - 1)
\* when cx = 0 and cy > 0, and changes nothing when cx = 0 and cy = 0.
C19_backspace ==
    [][InsertStep({BACKSPACE, CTRL_H}) =>
          IF E.cx > 0
          THEN /\ E.cy < E.row_count
               /\ E.cx <= CursorRowLen(E)
               /\ RowChars(E') = WithoutChar(E, E.cy, E.cx - 1)
               /\ E'.cx = E.cx - 1
               /\ E'.cy = E.cy
          ELSE IF E.cy > 0
          THEN /\ E.cy < E.row_count
               /\ RowChars(E') = Joined(E, E.cy)
               /\ E'.row_count = E.row_count - 1
               /\ E'.cx = Len(RowChars(E)[E.cy])
               /\ E'.cy = E.cy - 1
          ELSE /\ RowChars(E') = RowChars(E)
               /\ E'.cx = E.cx
               /\ E'.cy = E.cy]_vars

\* the count a motion runs with when pending_count is pending
MotionCount(e) == IF e.pending_count # 0 THEN e.pending_count ELSE 1

\* one of the motions keys moved the cursor from a valid position of a buffer
\* with rows, no operator pending
MotionStep(keys) ==
    /\ NormalStep(keys)
    /\ E.pending_op = OP_NONE
    /\ E.row_count >= 1
    /\ CursorValid(E)

\* min(y + c, last) and max(y - c, 0) for a u32 count c held as in u32_lt
RowBelow(y, c, last) == IF u32_ge(c, last - y) THEN last ELSE y + c
RowAbove(y, c) == IF u32_ge(c, y) THEN 0 ELSE y - c

\* min(x, length of row y)
ColumnOnRow(e, x, y) ==
    IF x < Len(e.rows[y + 1].chars) THEN x ELSE Len(e.rows[y + 1].chars)

\* C14: from a valid position (x, y) of a buffer of N >= 1 rows with count
\* c >= 1, j lands on row min(y + c, N - 1), k on row max(y - c, 0), g on
\* row 0 and G on row N - 1, and the column becomes min(x, length of the
\* destination row); the editor keeps running.
C14_vertical_motions ==
    [][MotionStep({CH_j, CH_k, CH_g, CH_G}) =>
          /\ E'.cy = CASE ev'.key = CH_j ->
                            RowBelow(E.cy, MotionCount(E), E.row_count - 1)
                       [] ev'.key = CH_k -> RowAbove(E.cy, MotionCount(E))
                       [] ev'.key = CH_g -> 0
                       [] ev'.key = CH_G -> E.row_count - 1
          /\ E'.cy < E.row_count
          /\ E'.cx = ColumnOnRow(E, E.cx, E'.cy)]_vars

\* C15: from a valid position (x, y) with count c >= 1, h yields column
\* max(x - c, 0) and l yields column min(x + c, length of row y); the row is
\* unchanged by both.
C15_horizontal_motions ==
    [][MotionStep({CH_h, CH_l}) =>
          /\ E'.cy = E.cy
          /\ E'.cx = IF ev'.key = CH_h
                     THEN RowAbove(E.cx, MotionCount(E))
                     ELSE RowBelow(E.cx, MotionCount(E), CursorRowLen(E))]_vars

\* the column _ and $ set before they move down
LineColumn(e, key) == IF key = CH_underscore THEN 0 ELSE CursorRowLen(e)

\* the position of motion pos
At(pos) == <<pos.x, pos.y>>

\* C16: with count c >= 1 on a non-empty buffer, _ gives the same position
\* as setting the column to 0 and then applying j with count c - 1, and $
\* the same position as setting the column to the length of the current row
\* and then applying j with count c - 1; for c = 1 the row does not change.
C16_line_motions ==
    [][MotionStep({CH_underscore, CH_dollar}) =>
          /\ <<E'.cx, E'.cy>> =
                At(motion_down(E, Pos(LineColumn(E, ev'.key), E.cy),
                               MotionCount(E) - 1, NoInput))
          /\ MotionCount(E) = 1 =>
                (E'.cy = E.cy /\ E'.cx = LineColumn(E, ev'.key))]_vars

\* 3$ from row 0 of the rows "ab", "", "abc" ended on row 2 at column 2
C16_counted_line_end_reached ==
    /\ pc = "loop"
    /\ ev.key = CH_dollar
    /\ ev.count = 3
    /\ RowChars(E) = <<<<CH_a, CH_b>>, <<>>, <<CH_a, CH_b, CH_c>>>>
    /\ E.cy = 2
    /\ E.cx = 2

\* the item at position i of the stream s: a pause where s has ended
Item(s, i) == IF i <= Len(s) THEN s[i] ELSE TIMEOUT

\* the key for the stream s, which starts with a byte
Decoded(s) ==
    IF s[1] # ESCAPE THEN s[1]
    ELSE CASE Item(s, 2) = CH_bracket /\ Item(s, 3) \in {CH_1, CH_7} /\ Item(s, 4) = CH_tilde
                 -> HOME
           [] Item(s, 2) = CH_bracket /\ Item(s, 3) = CH_3 /\ Item(s, 4) = CH_tilde
                 -> DELETE
           [] Item(s, 2) = CH_bracket /\ Item(s, 3) \in {CH_4, CH_8} /\ Item(s, 4) = CH_tilde
                 -> END
           [] Item(s, 2) = CH_bracket /\ Item(s, 3) = CH_5 /\ Item(s, 4) = CH_tilde
                 -> PAGE_UP
           [] Item(s, 2) = CH_bracket /\ Item(s, 3) = CH_6 /\ Item(s, 4) = CH_tilde
                 -> PAGE_DOWN
           [] Item(s, 2) = CH_bracket /\ Item(s, 3) = CH_A -> ARROW_UP
           [] Item(s, 2) = CH_bracket /\ Item(s, 3) = CH_B -> ARROW_DOWN
           [] Item(s, 2) = CH_bracket /\ Item(s, 3) = CH_C -> ARROW_RIGHT
           [] Item(s, 2) = CH_bracket /\ Item(s, 3) = CH_D -> ARROW_LEFT
           [] Item(s, 2) \in {CH_bracket, CH_O} /\ Item(s, 3) = CH_F -> END
           [] Item(s, 2) \in {CH_bracket, CH_O} /\ Item(s, 3) = CH_H -> HOME
           [] OTHER -> ESCAPE

\* C17: for every sequence of up to four bytes, with a pause possible after
\* any byte, the decoder returns Home for ESC [ d ~ with d in {1, 7}, Delete
\* for 3, End for {4, 8}, Page Up for 5, Page Down for 6; the arrows for
\* ESC [ A/B/C/D; End for ESC [ F and ESC O F; Home for ESC [ H and ESC O H;
\* the ESC key for any other or incomplete sequence that starts with ESC;
\* and a first byte other than ESC itself.
C17_decoder ==
    [][(pc = "loop" /\ pending_input(stdin) # <<>> /\ ev'.mode \in {M_NORMAL, M_INSERT}) =>
          ev'.key = Decoded(pending_input(stdin))]_vars

\* the rows of e with row cy split in two at column cx
SplitAt(e, cx, cy) ==
    Take(RowChars(e), cy)
        \o <<Take(RowChars(e)[cy + 1], cx), Drop(RowChars(e)[cy + 1], cx)>>
        \o Drop(RowChars(e), cy + 1)

\* no file was loaded: none was named or the one named does not exist
StartedEmpty == E.filename = NULL \/ ~fs[File_f].exists

\* C18: in Insert mode with the cursor at (cx, cy) on an existing row, Return
\* replaces row cy by the characters before cx and the characters from cx
\* on, keeps the other rows and their order, adds exactly one row and puts
\* the cursor at (0, cy + 1); "hi", Return, "bye" typed on an empty buffer
\* gives the rows "hi" and "bye".
C18_return_splits_row ==
    [][/\ (InsertStep({RETURN}) /\ E.cy < E.row_count) =>
             /\ RowChars(E') = SplitAt(E, E.cx, E.cy)
             /\ E'.row_count = E.row_count + 1
             /\ Len(E'.rows) = E'.row_count
             /\ E'.cx = 0
             /\ E'.cy = E.cy + 1
       /\ (InsertStep({CH_e}) /\ stdin' = <<>> /\ StartedEmpty) =>
             RowChars(E') = <<<<CH_h, CH_i>>, <<CH_b, CH_y, CH_e>>>>]_vars

\* Return split the row "ax" between its two characters
C18_row_split_reached ==
    /\ pc = "loop"
    /\ ev.key = RETURN
    /\ ev.mode = M_INSERT
    /\ RowChars(E) = <<<<CH_a>>, <<CH_x>>>>
    /\ E.cy = 1
    /\ E.cx = 0

\* the printable characters
Printable == 32..126

\* the editor after Backspace is pressed in the state the step ends in
BackspaceNext ==
    process_keypress([E |-> E', fs |-> fs', halt |-> "none", ev |-> ev'],
                     BACKSPACE, NoInput).E

\* e has the rows and the cursor of the state before the step
SameTextAndCursor(e) ==
    /\ RowChars(e) = RowChars(E)
    /\ e.row_count = E.row_count
    /\ e.cx = E.cx
    /\ e.cy = E.cy

\* C20 as stated: in Insert mode, from any reachable state, typing a
\* printable character and then pressing Backspace restores the rows (bytes,
\* lengths and row count) and the cursor position.
C20_insert_backspace_anywhere ==
    [][InsertStep(Printable) => SameTextAndCursor(BackspaceNext)]_vars

\* C20: in Insert mode with the cursor on an existing row (cy < row_count),
\* typing a printable character and then pressing Backspace restores the
\* rows (bytes, lengths and row count) and the cursor position.
C20_insert_backspace ==
    [][(InsertStep(Printable) /\ E.cy < E.row_count) =>
          SameTextAndCursor(BackspaceNext)]_vars

\* x was typed between the two characters of the row "aa"
C20_typed_inside_row_reached ==
    /\ pc = "loop"
    /\ ev.key = CH_x
    /\ ev.mode = M_INSERT
    /\ RowChars(E) = <<<<CH_a, CH_x, CH_a>>>>
    /\ E.cx = 2
    /\ E.cy = 0

\* chars with each tab replaced by the spaces that reach the next multiple of
\* TAB_SIZE, appended to the rendered text out
RECURSIVE Expanded(_, _)
Expanded(chars, out) ==
    IF chars = <<>> THEN out
    ELSE Expanded(Tail(chars),
                  IF Head(chars) = TAB
                  THEN out \o [i \in 1..(TAB_SIZE - (Len(out) % TAB_SIZE)) |-> SPACE]
                  ELSE Append(out, Head(chars)))

\* C21: whenever the editor waits for a key, the render of every row is the
\* tab expansion of its chars (a tab becomes 1 to 8 spaces, up to the next
\* multiple of 8; every other character is copied), so rlen >= len.
C21_render_is_expansion ==
    pc = "loop" =>
       /\ Len(E.rows) = E.row_count
       /\ \A i \in 1..Len(E.rows) :
             /\ E.rows[i].render = Expanded(E.rows[i].chars, <<>>)
             /\ Len(E.rows[i].render) >= Len(E.rows[i].chars)

\* characters were typed before the tab of the row "a\tx" and the row was
\* split behind the tab
C21_tab_moved_reached ==
    /\ pc = "loop"
    /\ E.row_count = 2
    /\ E.rows[1].chars = <<CH_x, CH_a, TAB>>
    /\ Len(E.rows[1].render) = 8
    /\ E.rows[2].chars = <<CH_x>>

\* C22: when a memory allocation fails while a row or the row array grows
\* (row insertion, character insertion, row append, render recomputation),
\* the editor takes the fatal path: the process exits with code 1 and the
\* terminal restored, and does not carry on with the failed allocation.
C22_allocation_failure_fatal ==
    ev.nomem => (pc = "exited" /\ exit_code = 1 /\ ~raw)

\* max(0, rlen - col_offset) for the row file_row of e
RenderLeft(e, file_row) ==
    IF e.col_offset >= Len(e.rows[file_row + 1].render) THEN 0
    ELSE Len(e.rows[file_row + 1].render) - e.col_offset

\* C23: for every visible buffer row of every frame, the render bytes emitted
\* start at col_offset, their number is at most max(0, rlen - col_offset), so
\* no byte past the end of the render is read, and the line-number field
\* plus the slice is at most screen_cols wide.
C23_row_slice_in_bounds ==
    pc = "loop" =>
       \A y \in DOMAIN draw_rows(E) :
          /\ draw_rows(E)[y].from = E.col_offset
          /\ draw_rows(E)[y].len <= RenderLeft(E, draw_rows(E)[y].file_row)
          /\ draw_rows(E)[y].linenr_len + draw_rows(E)[y].len <= E.screen_cols

\* the buffer: row contents, row count, dirty flag and file name
Buffer(e) == <<e.rows, e.row_count, e.dirty, e.filename>>

\* C24: no key processed in Normal mode other than ':' changes the buffer: the
\* row contents, the row count, the dirty flag and the file name are the same
\* after count digits, the operator prefixes c, d, y, the motion keys with or
\* without a pending operator, unmapped keys and i, I, a, A, whether or not
\* the editor runs on; c, d and y also leave the cursor and pending_count
\* unchanged.
C24_normal_keys_keep_buffer ==
    [][(pc = "loop" /\ E.mode = M_NORMAL /\ ev'.mode = M_NORMAL /\ ev'.key # CH_colon) =>
          /\ Buffer(E') = Buffer(E)
          /\ ev'.key \in {CH_c, CH_d, CH_y} =>
                /\ pc' = "loop"
                /\ E'.cx = E.cx
                /\ E'.cy = E.cy
                /\ E'.pending_count = E.pending_count]_vars

\* d j was resolved on the first of two rows of an unmodified buffer
C24_delete_down_resolved_reached ==
    /\ pc = "loop"
    /\ ev.motion
    /\ ev.op = OP_DELETE
    /\ ev.key = CH_j
    /\ E.cy = 0
    /\ E.row_count = 2
    /\ ~E.dirty

\* C25: for every count pending_count can hold, up to 2^32 - 1, the motion
\* arithmetic does not wrap: j never lands on a row above the start row and
\* l never lands on a column left of the start column, and a count that
\* reaches past the last row or the row end lands on that boundary.
C25_counts_never_wrap ==
    [][MotionStep({CH_j, CH_l}) =>
          IF ev'.key = CH_j
          THEN /\ E'.cy >= E.cy
               /\ u32_ge(MotionCount(E), E.row_count - 1 - E.cy) => E'.cy = E.row_count - 1
          ELSE /\ E'.cx >= E.cx
               /\ u32_ge(MotionCount(E), CursorRowLen(E) - E.cx) => E'.cx = CursorRowLen(E)]_vars

\* C26: in every frame drawn with a non-empty buffer the cursor is placed on
\* the terminal cell where render column rx of row ry is drawn: screen row
\* (ry - row_offset) + 1 and, the slice of the row starting at col_offset
\* after the line-number field, screen column 5 + (rx - col_offset) + 1.
C26_cursor_on_drawn_cell ==
    (pc = "loop" /\ E.row_count > 0) =>
       /\ cursor_cell(E).row = (E.ry - E.row_offset) + 1
       /\ cursor_cell(E).col = LINENR_LEN + (E.rx - E.col_offset) + 1

\* C27: the process never exits through a command that is not forced, q or
\* wq, while the dirty flag is true: wq exits only after its save succeeded,
\* also when the buffer has no file name and when the write fails.
C27_no_exit_while_dirty ==
    (pc = "exited" /\ exit_code = 0 /\ ev.cmd \in {<<CH_q>>, <<CH_w, CH_q>>}) => ~E.dirty

\* the bytes of the stream s that one call of read_key took, rest being left
RECURSIVE BytesOf(_)
BytesOf(s) ==
    IF s = <<>> THEN <<>>
    ELSE IF Head(s) = TIMEOUT THEN BytesOf(Tail(s))
    ELSE <<Head(s)>> \o BytesOf(Tail(s))

Taken(s, rest) == BytesOf(Take(s, Len(s) - Len(rest)))

\* C28: the input decoder loses no input: the bytes one call of read_key
\* takes are one byte, returned as the key, or the bytes of a recognized
\* escape sequence, returned as its symbolic key; when ESC is returned the
\* bytes that followed it are still to be read.
C28_decoder_loses_no_input ==
    [][(/\ pc = "loop"
        /\ pending_input(stdin) # <<>>
        /\ ev'.mode \in {M_NORMAL, M_INSERT}
        /\ ~(E.mode = M_NORMAL /\ ev'.key = CH_colon)) =>
          IF ev'.key \in ARROW_UP..PAGE_DOWN
          THEN /\ Len(Taken(stdin, stdin')) \in {3, 4}
               /\ Head(Taken(stdin, stdin')) = ESCAPE
          ELSE Len(Taken(stdin, stdin')) = 1]_vars

\* C29: whenever the editor is in Insert mode, and whenever a command prompt
\* was opened, pending_count is 0 and pending_op is OP_NONE: a count or an
\* operator typed in Normal mode before i, I, a, A or ':' does not survive.
C29_no_pending_outside_normal ==
    /\ (pc = "loop" /\ E.mode = M_INSERT) =>
          (E.pending_count = 0 /\ E.pending_op = OP_NONE)
    /\ (pc = "loop" /\ ev.key = CH_colon /\ ev.mode = M_NORMAL) =>
          (E.pending_count = 0 /\ E.pending_op = OP_NONE)

====
